---------------------------- MODULE Spec2Model ----------------------------
(***************************************************************************)
(* Vue3Vscroll: the cumulative-height index (rowInfo), the window          *)
(* calculation with its hysteresis band (getStartIdx / getEndIdx /         *)
(* redraw) and the debounced scheduling of redraw (debounce / onRedraw),   *)
(* together with the demo parent's updateHeight handler.                   *)
(*                                                                         *)
(* Pixel quantities are integers.  The two places where the source         *)
(* multiplies by a fraction are kept exact by scaling:                     *)
(*   - hysteresis is a number of halves (hysteresis = 1 means 0.5),        *)
(*   - padding2 is carried doubled (pad2x2 = 2 * padding2), because the    *)
(*     default padding is min(windowHeight, viewportHeight2) * 0.5.        *)
(* A JavaScript array is a sequence shifted by one: info[k] of the source  *)
(* is info[k + 1] here; a read outside the array gives undefined, which    *)
(* is NaN in arithmetic and false in every comparison.                     *)
(***************************************************************************)
EXTENDS Integers, Sequences, FiniteSets, TLC

(***************************************************************************)
(* Bounds of the model.                                                    *)
(***************************************************************************)
MaxLen == 2
MaxScroll == 3
RedrawWait == 2
MaxTimers == 2

(***************************************************************************)
(* Values.                                                                 *)
(***************************************************************************)
Null == -1
NaN == -999
HystDen == 2
Rows == 1 .. 5

Min(a, b) == IF a < b THEN a ELSE b
Max(a, b) == IF a > b THEN a ELSE b

IsNaN(x) == x = NaN
NumAdd(a, b) == IF IsNaN(a) \/ IsNaN(b) THEN NaN ELSE a + b
NumLt(a, b) == ~IsNaN(a) /\ ~IsNaN(b) /\ a < b
NumGt(a, b) == ~IsNaN(a) /\ ~IsNaN(b) /\ a > b

\* info[k] of the source (k counted from 0); undefined outside the array
At(info, k) == IF k >= 0 /\ k < Len(info) THEN info[k + 1] ELSE NaN

\* info[k] += d on an index inside the array
AddAt(info, k, d) == [info EXCEPT ![k + 1] = @ + d]

\* ri & bit, for bit a power of two
BitSet(ri, bit) == (ri \div bit) % 2 = 1

\* s = ((ri ^ ri+1) + 1) / 2: the lowest set bit of ri + 1
RECURSIVE LowBit(_)
LowBit(n) == IF n % 2 = 1 THEN 1 ELSE 2 * LowBit(n \div 2)

BlockSize(ri) == LowBit(ri + 1)

\* list[rowIdx]?.[heightAttrName] ?? defaultHeight
RowHeight(lst, ht, dh, rowIdx) ==
    IF rowIdx >= 0 /\ rowIdx < Len(lst) /\ ht[lst[rowIdx + 1]] # Null
    THEN ht[lst[rowIdx + 1]]
    ELSE dh

\* update1 whose loop adds the difference to no accumulator of a later row
update1LoopNone(info, len, ri, bit, diff) == info

RECURSIVE update1Loop(_, _, _, _, _)
update1Loop(info, len, ri, bit, diff) ==
    IF bit < len
    THEN IF ~BitSet(ri, bit)
         THEN IF ri + bit >= len
              THEN info
              ELSE update1Loop(AddAt(info, (ri + bit) * 2 + 1, diff), len,
                               ri + bit, bit * 2, diff)
         ELSE update1Loop(info, len, ri, bit * 2, diff)
    ELSE info

\* update1 that adds the difference to the accumulators but does not store
\* the new height
update1NoStore(info, len, lst, ht, dh, rowIdx) ==
    LET newHeight == RowHeight(lst, ht, dh, rowIdx)
        diff == newHeight - At(info, rowIdx * 2)
    IN  IF diff = 0
        THEN info
        ELSE update1Loop(AddAt(info, rowIdx * 2 + 1, diff), len, rowIdx, 1, diff)

\* update rowInfo so that h(rowIdx) = newHeight, for a row inside the index
update1(info, len, lst, ht, dh, rowIdx) ==
    LET newHeight == RowHeight(lst, ht, dh, rowIdx)
        diff == newHeight - At(info, rowIdx * 2)
    IN  IF diff = 0
        THEN info
        ELSE update1Loop(AddAt(AddAt(info, rowIdx * 2, diff), rowIdx * 2 + 1, diff),
                         len, rowIdx, 1, diff)

RECURSIVE updateRangeLoop(_, _, _, _, _, _, _)
updateRangeLoop(info, len, lst, ht, dh, ri, to) ==
    IF ri < to
    THEN updateRangeLoop(update1(info, len, lst, ht, dh, ri), len, lst, ht, dh,
                         ri + 1, to)
    ELSE info

\* update rowInfo from list[ri].height for ri in [from, to), to clamped
updateRange(info, len, lst, ht, dh, from, to) ==
    updateRangeLoop(info, len, lst, ht, dh, from, Min(to, len))

\* the index of a list none of whose rows was read: every height is dh
updateAll(lst, dh) ==
    [k \in 1 .. 2 * Len(lst) |->
        IF k % 2 = 1 THEN dh ELSE dh * BlockSize((k \div 2) - 1)]

RECURSIVE Zeros(_)
Zeros(n) == IF n <= 0 THEN << >> ELSE <<0>> \o Zeros(n - 1)

\* update() that rebuilds the index from the default height when the list
\* shrank
updateResizeRebuild(info, oldLen, lst, ht, dh) ==
    LET len == Len(lst)
    IN  IF oldLen = 0 \/ len < oldLen THEN updateAll(lst, dh)
        ELSE IF len > oldLen
             THEN updateRange(info \o Zeros((len - oldLen) * 2), len, lst, ht, dh,
                              oldLen, len)
        ELSE info

\* update(): the index and its length after synchronising with the list
updateResize(info, oldLen, lst, ht, dh) ==
    LET len == Len(lst)
    IN  IF oldLen = 0 THEN updateAll(lst, dh)
        ELSE IF len < oldLen THEN SubSeq(info, 1, len * 2)
        ELSE IF len > oldLen
             THEN updateRange(info \o Zeros((len - oldLen) * 2), len, lst, ht, dh,
                              oldLen, len)
        ELSE info

\* update() without its last call, the re-reading of the rows of the window
updateLengthOnly(info, oldLen, lst, ht, dh, sIdx, eIdx) ==
    updateResize(info, oldLen, lst, ht, dh)

update(info, oldLen, lst, ht, dh, sIdx, eIdx) ==
    updateRange(updateResize(info, oldLen, lst, ht, dh), Len(lst), lst, ht, dh,
                sIdx, eIdx)

RECURSIVE getRowTopLoop(_, _, _, _, _)
getRowTopLoop(info, upto, ri, bit, sum) ==
    IF bit <= upto
    THEN IF BitSet(ri, bit)
         THEN getRowTopLoop(info, upto, ri - bit, bit * 2,
                            NumAdd(sum, At(info, ri * 2 - 1)))
         ELSE getRowTopLoop(info, upto, ri, bit * 2, sum)
    ELSE sum

\* h(0) + h(1) + ... + h(rowIdx - 1)
getRowTop(info, len, rowIdx) ==
    getRowTopLoop(info, Min(rowIdx, len), rowIdx, 1, 0)

\* the biggest power of two <= len; 2 ^ floor(log2(0)) = 2 ^ -Infinity = 0
RECURSIVE bpt(_)
bpt(len) == IF len <= 0 THEN 0 ELSE IF len = 1 THEN 1 ELSE 2 * bpt(len \div 2)

RECURSIVE getRowIdxLoop(_, _, _, _)
getRowIdxLoop(info, rest, bit, ri) ==
    IF bit >= 1
    THEN LET h == At(info, (ri + bit) * 2 - 1)
         IN  IF ~IsNaN(h) /\ rest >= h
             THEN getRowIdxLoop(info, rest - h, bit \div 2, ri + bit)
             ELSE getRowIdxLoop(info, rest, bit \div 2, ri)
    ELSE ri

\* find ri where getRowTop(ri) <= rowTop < getRowTop(ri + 1)
getRowIdx(info, len, rowTop) ==
    IF rowTop < 0 THEN -1 ELSE getRowIdxLoop(info, rowTop, bpt(len), 0)

getTotalRowHeight(info, len) == getRowTop(info, len, len)

(***************************************************************************)
(* Inputs of the model.                                                    *)
(***************************************************************************)
\* the heights the rows have when they are rendered
RenderedHeights == [r \in Rows |-> IF r % 2 = 1 THEN 3 ELSE 1]

Asc == [i \in 1 .. MaxLen |-> i]
Desc == [i \in 1 .. MaxLen |-> MaxLen + 1 - i]
\* the arrays the parent passes: the prefixes of one array, and another array
\* holding the same row objects in another order
ListPool == {SubSeq(Asc, 1, n) : n \in 0 .. MaxLen} \cup {Desc}

\* the props a component is created with
Config(hh, vh, pad, hyst) ==
    [defaultHeight |-> 2, headerHeight |-> hh, footerHeight |-> 0,
     viewportHeight |-> vh, padding |-> pad, hysteresis |-> hyst,
     viewportTop |-> 0, windowHeight |-> 4]

Configs ==
    {Config(0, 2, 0, 0), Config(0, 2, 2, 2), Config(1, Null, Null, 1),
     Config(1, 2, Null, 1)}

VARIABLES
    list,             \* props.list: the rows (object identities) in order
    height,           \* row[heightAttrName] of every row object, Null if unset
    realHeight,       \* getBoundingClientRect().height of every row's element
    defaultHeight, headerHeight, footerHeight, viewportHeight, padding,
    hysteresis,       \* the other props
    scrollTop,        \* viewport.scrollTop
    viewportTop,      \* viewport.getBoundingClientRect().y
    windowHeight,     \* window.innerHeight
    rowInfo, listLength,
    startIdx, endIdx, startTop, endTop,
    vlist, sheetStyle, viewportHeight2, screenHeight,
    timeout,          \* the timer id held by the debounce closure, 0 if none
    timers,           \* the browser's timers: remaining time, -1 if not set
    tickQueue,        \* the callbacks handed to nextTick, not yet run
    sinceTrigger,     \* time since the last call of onRedraw (up to RedrawWait)
    redrawsSinceTrigger  \* executions of redraw since the last call of onRedraw

propVars == <<defaultHeight, headerHeight, footerHeight, viewportHeight, padding,
              hysteresis>>
domVars == <<scrollTop, viewportTop, windowHeight>>
indexVars == <<rowInfo, listLength>>
windowVars == <<startIdx, endIdx, startTop, endTop, vlist, sheetStyle,
                viewportHeight2, screenHeight>>
timerVars == <<timeout, timers, sinceTrigger, redrawsSinceTrigger>>
vars == <<list, height, realHeight, propVars, domVars, indexVars, windowVars, timerVars,
          tickQueue>>

TimerIds == 1 .. MaxTimers
NoTimers == [id \in TimerIds |-> -1]
PendingTimers(ts) == {id \in TimerIds : ts[id] >= 0}

\* clearTimeout(timeout)
clearTimeout(ts, id) == IF id \in TimerIds THEN [ts EXCEPT ![id] = -1] ELSE ts

\* a debounced function that does not cancel its previous timer
debounceNoClear(ts, id) == ts

\* the timers left after the debounced function cancelled its previous one
debounceClear(ts, id) == clearTimeout(ts, id)

FreeTimer(ts) == CHOOSE id \in TimerIds :
                    /\ ts[id] < 0
                    /\ \A other \in TimerIds : ts[other] < 0 => id <= other

\* one call of the debounced function onRedraw
onRedraw ==
    LET cleared == debounceClear(timers, timeout)
    IN  /\ \E id \in TimerIds : cleared[id] < 0
        /\ timeout' = FreeTimer(cleared)
        /\ timers' = [cleared EXCEPT ![FreeTimer(cleared)] = RedrawWait]
        /\ sinceTrigger' = 0
        /\ redrawsSinceTrigger' = 0

\* the largest scrollTop the rendered geometry allows
MaxScrollTop == Max(0, screenHeight - viewportHeight2)

Slice(lst, from, to) ==
    LET a == Min(Max(from, 0), Len(lst))
        b == Min(Max(to, 0), Len(lst))
    IN  IF a < b THEN SubSeq(lst, a + 1, b) ELSE << >>

\* the component right after setup and mount: onMounted has called onRedraw
InitWith(cfg, lst, rendered) ==
    /\ list = lst
    /\ height = [r \in Rows |-> Null]
    /\ realHeight = rendered
    /\ defaultHeight = cfg.defaultHeight
    /\ headerHeight = cfg.headerHeight
    /\ footerHeight = cfg.footerHeight
    /\ viewportHeight = cfg.viewportHeight
    /\ padding = cfg.padding
    /\ hysteresis = cfg.hysteresis
    /\ scrollTop = 0
    /\ viewportTop = cfg.viewportTop
    /\ windowHeight = cfg.windowHeight
    /\ rowInfo = << >>
    /\ listLength = 0
    /\ startIdx = 0
    /\ endIdx = 0
    /\ startTop = 0
    /\ endTop = 0
    /\ vlist = << >>
    /\ sheetStyle = Null
    /\ viewportHeight2 = 0
    /\ screenHeight = 0
    /\ timeout = 1
    /\ timers = [NoTimers EXCEPT ![1] = RedrawWait]
    /\ tickQueue = << >>
    /\ sinceTrigger = 0
    /\ redrawsSinceTrigger = 0

Init == \E cfg \in Configs : InitWith(cfg, << >>, RenderedHeights)

(***************************************************************************)
(* redraw(): what it computes from the state it is called in.              *)
(***************************************************************************)
\* rowInfo after update()
UpdatedInfo ==
    update(rowInfo, listLength, list, height, defaultHeight, startIdx, endIdx)

\* viewport.scrollTop as the browser reports it for the rendered geometry
ReadScrollTop == Min(scrollTop, MaxScrollTop)

NewScreenHeight ==
    headerHeight + getTotalRowHeight(UpdatedInfo, Len(list)) + footerHeight

NewViewportHeight2 ==
    IF viewportHeight = Null THEN NewScreenHeight ELSE viewportHeight

\* 2 * padding2
Pad2x2 ==
    IF padding = Null THEN Min(windowHeight, NewViewportHeight2) ELSE 2 * padding

\* topOffset and bottomOffset for a scrollTop of st
TopOffset(st) == st + Max(0, 0 - viewportTop) - headerHeight

BottomOffset(st) ==
    st + Min(NewViewportHeight2, windowHeight - viewportTop) - headerHeight

\* x * 2 * HystDen, the scale on which the band tests are integers
Scaled(x) == IF IsNaN(x) THEN NaN ELSE 2 * HystDen * x

\* startTop < paddedTop1 || startTop > paddedTop2
StartOutOfBand(topOffset, pad2x2) ==
    \/ NumLt(Scaled(startTop), Scaled(topOffset) - pad2x2 * (HystDen + hysteresis))
    \/ NumGt(Scaled(startTop), Scaled(topOffset) - pad2x2 * (HystDen - hysteresis))

\* endTop < paddedBottom1 || endTop > paddedBottom2
EndOutOfBand(bottomOffset, pad2x2) ==
    \/ NumLt(Scaled(endTop), Scaled(bottomOffset) + pad2x2 * (HystDen - hysteresis))
    \/ NumGt(Scaled(endTop), Scaled(bottomOffset) + pad2x2 * (HystDen + hysteresis))

\* the row index getRowIdx finds for the offset x2 / 2 (heights are integers,
\* so the comparisons of the descent only see the floor of the offset)
getRowIdxHalf(info, len, x2) == getRowIdx(info, len, x2 \div 2)

getStartIdx(info, len, topOffset, pad2x2) ==
    IF StartOutOfBand(topOffset, pad2x2)
    THEN Max(0, getRowIdxHalf(info, len, 2 * topOffset - pad2x2))
    ELSE startIdx

\* getEndIdx without the hysteresis band: the end is always recomputed
getEndIdxNoBand(info, len, bottomOffset, pad2x2) ==
    Min(len, getRowIdxHalf(info, len, 2 * bottomOffset + pad2x2) + 1)

\* getEndIdx ending the window at the row that holds the bottom offset
getEndIdxExclusive(info, len, bottomOffset, pad2x2) ==
    IF EndOutOfBand(bottomOffset, pad2x2)
    THEN Min(len, getRowIdxHalf(info, len, 2 * bottomOffset + pad2x2))
    ELSE endIdx

getEndIdx(info, len, bottomOffset, pad2x2) ==
    IF EndOutOfBand(bottomOffset, pad2x2)
    THEN Min(len, getRowIdxHalf(info, len, 2 * bottomOffset + pad2x2) + 1)
    ELSE endIdx

\* the candidate window of a redraw that reads a scrollTop of st
NewStartIdxAt(st) == getStartIdx(UpdatedInfo, Len(list), TopOffset(st), Pad2x2)

NewEndIdxAt(st) ==
    Max(NewStartIdxAt(st),
        getEndIdx(UpdatedInfo, Len(list), BottomOffset(st), Pad2x2))

\* newStartIdx != startIdx.value || newEndIdx != endIdx.value
WindowChangedAt(st) == NewStartIdxAt(st) # startIdx \/ NewEndIdxAt(st) # endIdx

NewStartIdx == NewStartIdxAt(ReadScrollTop)
NewEndIdx == NewEndIdxAt(ReadScrollTop)
\* a test of redraw() that looks at the start of the window only
StartChanged == NewStartIdx # startIdx

WindowChanged == WindowChangedAt(ReadScrollTop)

\* an updateHeight event that carries the window as it was before the redraw
EmitOldWindow == <<startIdx, endIdx>>

\* the arguments of the updateHeight event the nextTick callback emits
EmitArgs == <<NewStartIdx, NewEndIdx>>

redraw ==
    /\ rowInfo' = UpdatedInfo
    /\ listLength' = Len(list)
    /\ scrollTop' = ReadScrollTop
    /\ screenHeight' = NewScreenHeight
    /\ viewportHeight2' = NewViewportHeight2
    /\ IF WindowChanged
       THEN /\ startIdx' = NewStartIdx
            /\ endIdx' = NewEndIdx
            /\ startTop' = getRowTop(UpdatedInfo, Len(list), NewStartIdx)
            /\ endTop' = getRowTop(UpdatedInfo, Len(list), NewEndIdx)
            /\ vlist' = Slice(list, NewStartIdx, NewEndIdx)
            /\ sheetStyle' = getRowTop(UpdatedInfo, Len(list), NewStartIdx)
            /\ tickQueue' = Append(tickQueue, EmitArgs)
       ELSE UNCHANGED <<startIdx, endIdx, startTop, endTop, vlist, sheetStyle,
                        tickQueue>>

(***************************************************************************)
(* The steps of the program and of its environment.  A callback handed to  *)
(* nextTick is a microtask: it runs before the next timer, DOM event or    *)
(* passage of time, which are tasks of the event loop.                     *)
(***************************************************************************)
\* a scroll or resize event of the window, or a change of redrawSignal
Trigger ==
    /\ tickQueue = << >>
    /\ onRedraw
    /\ UNCHANGED <<list, height, realHeight, propVars, domVars, indexVars, windowVars,
                   tickQueue>>

\* the user scrolls the viewport: its scroll event calls onRedraw
Scroll(s) ==
    /\ tickQueue = << >>
    /\ s # scrollTop
    /\ s <= MaxScrollTop
    /\ scrollTop' = s
    /\ onRedraw
    /\ UNCHANGED <<list, height, realHeight, propVars, viewportTop, windowHeight, indexVars,
                   windowVars, tickQueue>>

\* the parent passes another array as the list prop: watch(list) calls onRedraw
ReplaceList(l) ==
    /\ l # list
    /\ list' = l
    /\ onRedraw
    /\ UNCHANGED <<height, realHeight, propVars, domVars, indexVars, windowVars, tickQueue>>

\* the parent pushes to or splices the array in place: no watcher runs
MutateList(l) ==
    /\ l # list
    /\ list' = l
    /\ UNCHANGED <<height, realHeight, propVars, domVars, indexVars, windowVars, timerVars,
                   tickQueue>>

\* the parent writes the height attribute of a row object that has none:
\* no watcher runs
SetHeight(r) ==
    /\ height[r] = Null
    /\ height' = [height EXCEPT ![r] = realHeight[r]]
    /\ UNCHANGED <<list, realHeight, propVars, domVars, indexVars, windowVars, timerVars,
                   tickQueue>>

\* one unit of time passes
Tick ==
    /\ tickQueue = << >>
    /\ \/ sinceTrigger < RedrawWait
       \/ \E id \in TimerIds : timers[id] > 0
    /\ timers' = [id \in TimerIds |-> IF timers[id] > 0 THEN timers[id] - 1
                                       ELSE timers[id]]
    /\ sinceTrigger' = Min(sinceTrigger + 1, RedrawWait)
    /\ UNCHANGED <<list, height, realHeight, propVars, domVars, indexVars, windowVars,
                   timeout, redrawsSinceTrigger, tickQueue>>

\* a timer set by the debounced function expires: redraw() runs
TimerFire(id) ==
    /\ timers[id] = 0
    /\ tickQueue = << >>
    /\ timers' = [timers EXCEPT ![id] = -1]
    /\ redrawsSinceTrigger' = redrawsSinceTrigger + 1
    /\ redraw
    /\ UNCHANGED <<list, height, realHeight, propVars, viewportTop, windowHeight, timeout,
                   sinceTrigger>>

\* the rows the demo parent's updateHeight(from, to) measures: those of
\* list[from .. to) that are rendered (an element with the row's id exists)
MeasuredRows(from, to) ==
    {list[i + 1] : i \in Max(from, 0) .. (Min(to, Len(list)) - 1)}
        \cap {vlist[i] : i \in 1 .. Len(vlist)}

\* updateHeight(from, to) reads props.list[rowIdx] for a rowIdx at or beyond
\* the end of the list: updateRow(undefined) evaluates row[props.keyAttrName]
\* and throws a TypeError (the rows before rowIdx have been measured by then)
HandlerThrows(from, to) ==
    \E rowIdx \in from .. (to - 1) : rowIdx < 0 \/ rowIdx >= Len(list)

\* the nextTick callback emits updateHeight; the demo parent's handler writes
\* the rendered heights and increments redrawSignal when one changed
NextTick ==
    /\ tickQueue # << >>
    /\ tickQueue' = Tail(tickQueue)
    /\ LET rows == MeasuredRows(Head(tickQueue)[1], Head(tickQueue)[2])
           written == {r \in rows : height[r] # realHeight[r]}
       IN  /\ height' = [r \in Rows |-> IF r \in written THEN realHeight[r]
                                         ELSE height[r]]
           /\ IF written # {} THEN onRedraw ELSE UNCHANGED timerVars
    /\ UNCHANGED <<list, realHeight, propVars, domVars, indexVars, windowVars>>

Next ==
    \/ Trigger
    \/ \E s \in 0 .. MaxScroll : Scroll(s)
    \/ \E l \in ListPool : ReplaceList(l)
    \/ \E l \in ListPool : MutateList(l)
    \/ \E r \in 1 .. MaxLen : SetHeight(r)
    \/ Tick
    \/ \E id \in TimerIds : TimerFire(id)
    \/ NextTick

Spec == Init /\ [][Next]_vars

RedrawStep == \E id \in TimerIds : TimerFire(id)

\* The component under one configuration, with a parent that replaces or
\* mutates the list and a user who scrolls.  The event loop lets time pass, runs an
\* expired timer's callback and runs the pending microtasks.
LiveInit == InitWith(Config(0, 2, 2, 1), << >>, RenderedHeights)

LiveNext ==
    \/ Trigger
    \/ \E s \in 0 .. MaxScroll : Scroll(s)
    \/ \E l \in ListPool : ReplaceList(l)
    \/ \E l \in ListPool : MutateList(l)
    \/ Tick
    \/ \E id \in TimerIds : TimerFire(id)
    \/ NextTick

\* an expired timer's callback can run: the guard of TimerFire
RedrawEnabled == tickQueue = << >> /\ \E id \in TimerIds : timers[id] = 0

\* WF_vars(RedrawStep) written out; every TimerFire step changes timers, so
\* ENABLED <<RedrawStep>>_vars is RedrawEnabled
RedrawFairness == []<>(~RedrawEnabled) \/ []<><<RedrawStep>>_vars

FairSpec ==
    /\ LiveInit
    /\ [][LiveNext]_vars
    /\ WF_vars(Tick)
    /\ RedrawFairness
    /\ WF_vars(NextTick)

(***************************************************************************)
(* The end-to-end scenario: five rows already in the list at mount, row 0  *)
(* rendered 50 high and the others 20, the viewport fully on screen.       *)
(***************************************************************************)
ScenarioConfigs ==
    [defaultHeight : {20}, headerHeight : {0}, footerHeight : {0},
     viewportHeight : {40}, padding : {0}, hysteresis : {0},
     viewportTop : {0, 10}, windowHeight : {50, 60}]

ScenarioList == [i \in 1 .. 5 |-> i]
ScenarioHeights == [r \in Rows |-> IF r = 1 THEN 50 ELSE 20]

ScenarioInit ==
    \E cfg \in ScenarioConfigs : InitWith(cfg, ScenarioList, ScenarioHeights)

ScenarioNext ==
    \/ Trigger
    \/ \E s \in {0, 90} : Scroll(s)
    \/ Tick
    \/ \E id \in TimerIds : TimerFire(id)
    \/ NextTick

SpecScenario == ScenarioInit /\ [][ScenarioNext]_vars

(***************************************************************************)
(* Rows that render lower than estimated: four rows in the list at mount,  *)
(* defaultHeight 4, every row rendered 1 high, a viewport of height 4.     *)
(* The list and the props never change.                                    *)
(***************************************************************************)
LowRowsConfigs ==
    [defaultHeight : {4}, headerHeight : {0}, footerHeight : {0},
     viewportHeight : {4}, padding : {0, 2, Null}, hysteresis : {0, 1, 2},
     viewportTop : {0}, windowHeight : {8}]

LowRowsList == [i \in 1 .. 4 |-> i]
LowRowsHeights == [r \in Rows |-> 1]

LowRowsInit ==
    \E cfg \in LowRowsConfigs : InitWith(cfg, LowRowsList, LowRowsHeights)

LowRowsNext ==
    \/ Trigger
    \/ \E s \in 0 .. MaxScroll : Scroll(s)
    \/ Tick
    \/ \E id \in TimerIds : TimerFire(id)
    \/ NextTick

SpecLowRows == LowRowsInit /\ [][LowRowsNext]_vars

(***************************************************************************)
(* The height index alone: update() and update1() applied to lists of up   *)
(* to IndexMaxLen rows whose height attribute the parent writes.           *)
(***************************************************************************)
IndexMaxLen == 4

\* the value the parent writes to each row's height attribute: 3, or the
\* negative number -2
WrittenHeights == [r \in Rows |-> IF r % 2 = 1 THEN 3 ELSE -2]

IndexLists == {[i \in 1 .. n |-> i] : n \in 0 .. IndexMaxLen}

IndexInit == InitWith(Config(0, 2, 0, 0), << >>, RenderedHeights)

\* the parent writes a row's height attribute, or deletes it
WriteHeight(r, v) ==
    /\ height[r] # v
    /\ height' = [height EXCEPT ![r] = v]
    /\ UNCHANGED <<list, realHeight, propVars, domVars, indexVars, windowVars,
                   timerVars, tickQueue>>

\* update1(rowIdx), as updateRange calls it for a row inside the index
IndexUpdate1(rowIdx) ==
    /\ rowIdx < listLength
    /\ rowInfo' = update1(rowInfo, listLength, list, height, defaultHeight, rowIdx)
    /\ UNCHANGED <<list, height, realHeight, propVars, domVars, listLength,
                   windowVars, timerVars, tickQueue>>

\* the list prop becomes l and update() runs
IndexUpdate(l) ==
    /\ l # list
    /\ list' = l
    /\ rowInfo' = update(rowInfo, listLength, l, height, defaultHeight,
                         startIdx, endIdx)
    /\ listLength' = Len(l)
    /\ UNCHANGED <<height, realHeight, propVars, domVars, windowVars, timerVars,
                   tickQueue>>

IndexNext ==
    \/ \E r \in 1 .. IndexMaxLen :
           \E v \in {WrittenHeights[r], Null} : WriteHeight(r, v)
    \/ \E rowIdx \in 0 .. (IndexMaxLen - 1) : IndexUpdate1(rowIdx)
    \/ \E l \in IndexLists : IndexUpdate(l)

SpecIndex == IndexInit /\ [][IndexNext]_vars

(***************************************************************************)
(* The claims.                                                             *)
(***************************************************************************)
\* the stored height of row ri, and the sum of the first k stored heights
StoredHeight(info, ri) == info[2 * ri + 1]

RECURSIVE DirectSum(_, _)
DirectSum(info, k) ==
    IF k <= 0 THEN 0 ELSE DirectSum(info, k - 1) + StoredHeight(info, k - 1)

\* C1: after any sequence of list-length changes and height updates handled
\* by update(), getRowTop(k) is the sum of the first k stored heights, for
\* every 0 <= k <= N.
C1_PrefixSums ==
    \A k \in 0 .. listLength :
        getRowTop(rowInfo, listLength, k) = DirectSum(rowInfo, k)

\* C2: after every redraw(), 0 <= startIdx <= endIdx <= N, N the length of
\* the list the redraw synchronised the index with.
C2_WindowInsideList ==
    0 <= startIdx /\ startIdx <= endIdx /\ endIdx <= listLength

\* C3: after every redraw(), vlist is list.slice(startIdx, endIdx) of the
\* current list.
C3_VlistIsSlice ==
    [][RedrawStep => vlist' = Slice(list', startIdx', endIdx')]_vars

\* the offsets at which getRowIdx is compared with the true sums
Offsets == -1 .. (DirectSum(rowInfo, listLength) + 1)

\* C4: getRowIdx(offset) is -1 below 0, N at or beyond the total height, and
\* otherwise the row i with S(i) <= offset < S(i + 1), S the true sums.
C4_Locate ==
    \A offset \in Offsets :
        LET ri == getRowIdx(rowInfo, listLength, offset)
            total == DirectSum(rowInfo, listLength)
        IN  /\ offset < 0 => ri = -1
            /\ offset >= total => ri = listLength
            /\ (offset >= 0 /\ offset < total) =>
                   /\ ri >= 0 /\ ri < listLength
                   /\ DirectSum(rowInfo, ri) <= offset
                   /\ offset < DirectSum(rowInfo, ri + 1)

Abs(x) == IF x < 0 THEN 0 - x ELSE x

\* a scrollTop of s differs from the one the last redraw read by less than
\* padding2 * hysteresis
SmallScroll(s) ==
    s # scrollTop /\ 2 * HystDen * Abs(s - scrollTop) < Pad2x2 * hysteresis

\* at a scrollTop of s both cached boundaries are inside their bands
InsideBands(s) ==
    /\ ~StartOutOfBand(TopOffset(s), Pad2x2)
    /\ ~EndOutOfBand(BottomOffset(s), Pad2x2)

ScrollPositions == {s \in 0 .. MaxScroll : s <= MaxScrollTop}

KeepsWindowAfterSmallScroll ==
    \A s \in ScrollPositions : SmallScroll(s) => ~WindowChangedAt(s)

KeepsWindowInsideBands ==
    \A s \in ScrollPositions :
        (s # scrollTop /\ InsideBands(s)) => ~WindowChangedAt(s)

C8_PublishIffChanged ==
    [][RedrawStep =>
        IF NewStartIdx = startIdx /\ NewEndIdx = endIdx
        THEN UNCHANGED <<startIdx, endIdx, startTop, endTop, vlist, sheetStyle,
                         tickQueue>>
        ELSE /\ startIdx' = NewStartIdx
             /\ endIdx' = NewEndIdx
             /\ startTop' = getRowTop(rowInfo', listLength', NewStartIdx)
             /\ endTop' = getRowTop(rowInfo', listLength', NewEndIdx)
             /\ vlist' = Slice(list, NewStartIdx, NewEndIdx)
             /\ sheetStyle' = startTop'
             /\ Len(tickQueue') = Len(tickQueue) + 1]_vars

\* a redraw has changed only the end of the window
C8_Witness ==
    /\ redrawsSinceTrigger = 1
    /\ tickQueue # << >>
    /\ startIdx = 0
    /\ endIdx = 1
    /\ listLength = 2
    /\ Len(vlist) = 1

\* C9: a redraw() that changes the window schedules exactly one updateHeight,
\* with vlist set to the slice of that window; nothing else schedules one;
\* when it is emitted its arguments are the current window.
C9_EmitMatchesWindow ==
    /\ [][RedrawStep =>
            IF startIdx' # startIdx \/ endIdx' # endIdx
            THEN /\ tickQueue' = Append(tickQueue, <<startIdx', endIdx'>>)
                 /\ vlist' = Slice(list', startIdx', endIdx')
            ELSE tickQueue' = tickQueue]_vars
    /\ [][Len(tickQueue') > Len(tickQueue) => RedrawStep]_vars
    /\ [](tickQueue # << >> =>
            /\ Len(tickQueue) = 1
            /\ Head(tickQueue) = <<startIdx, endIdx>>)

\* an updateHeight for a window of two rows is about to be emitted
C9_Witness ==
    /\ tickQueue = <<<<0, 2>>>>
    /\ vlist = <<1, 2>>

\* C6: every call of onRedraw leaves exactly one timer pending, set to the
\* full redrawWait; redraw() never runs before redrawWait has passed since
\* the last call, and at most once after it.
C6_Coalescing ==
    /\ [](Cardinality(PendingTimers(timers)) <= 1)
    /\ [](sinceTrigger = 0 =>
            \E id \in TimerIds :
                PendingTimers(timers) = {id} /\ timers[id] = RedrawWait)
    /\ [][RedrawStep => sinceTrigger = RedrawWait]_vars
    /\ [](redrawsSinceTrigger <= 1)

\* a scroll has scheduled a redraw and that redraw has run, once
C6_Witness ==
    /\ scrollTop > 0
    /\ redrawsSinceTrigger = 1
    /\ sinceTrigger = RedrawWait
    /\ PendingTimers(timers) = {}

Scheduled == PendingTimers(timers) # {}

\* the rows of the window that redraw() re-reads
WindowRows == {i \in 0 .. (Len(list) - 1) : startIdx <= i /\ i < endIdx}

\* C7: a scheduled redraw() eventually runs unless onRedraw is called again
\* first, and it works on the list, the heights and the props as they are
\* when it runs.
C7_EventuallyRedraws ==
    /\ (Scheduled /\ sinceTrigger = 0) ~> (sinceTrigger > 0)
    /\ (Scheduled /\ sinceTrigger > 0) ~>
           (redrawsSinceTrigger = 1 \/ sinceTrigger = 0)
    /\ [][RedrawStep =>
            /\ listLength' = Len(list)
            /\ Len(rowInfo') = 2 * Len(list)
            /\ \A i \in WindowRows :
                   StoredHeight(rowInfo', i)
                       = RowHeight(list, height, defaultHeight, i)
            /\ screenHeight' = headerHeight
                   + getTotalRowHeight(rowInfo', Len(list)) + footerHeight]_vars

\* a redraw has run on a list that was replaced after the redraw was scheduled
C7_Witness ==
    /\ redrawsSinceTrigger = 1
    /\ list = Desc
    /\ listLength = Len(Desc)
    /\ startIdx < endIdx

\* the state a redraw leaves that read a scrollTop of st with row 0 stored h high
AfterRedrawAt(st, h) ==
    /\ redrawsSinceTrigger = 1
    /\ listLength = 5
    /\ scrollTop = st
    /\ StoredHeight(rowInfo, 0) = h

\* C10 as claimed: the first redraw at scrollTop 0 gives [0, 2); with row 0
\* 50 high a redraw at scrollTop 0 gives [0, 1) and one at 90 gives [4, 5).
C10_ScenarioAsClaimed ==
    /\ AfterRedrawAt(0, 20) => startIdx = 0 /\ endIdx = 2
    /\ AfterRedrawAt(0, 50) => startIdx = 0 /\ endIdx = 1
    /\ AfterRedrawAt(90, 50) => startIdx = 4 /\ endIdx = 5

\* C10 as amended: the first redraw at scrollTop 0 gives [0, 3); with row 0
\* 50 high a redraw at scrollTop 0 gives [0, 1) and one at 90 gives [3, 5).
C10_Scenario ==
    /\ AfterRedrawAt(0, 20) => startIdx = 0 /\ endIdx = 3
    /\ AfterRedrawAt(0, 50) => startIdx = 0 /\ endIdx = 1
    /\ AfterRedrawAt(90, 50) => startIdx = 3 /\ endIdx = 5

\* the scenario has reached its last step
C10_Witness == AfterRedrawAt(90, 50) /\ tickQueue = << >> /\ height[5] = 20

\* the updateHeight ranges a stale window can carry
StaleRanges ==
    {w \in (0 .. (MaxLen + 1)) \X (0 .. (MaxLen + 1)) : w[1] >= listLength}

\* C13: a height update addressed to rows at or beyond the length of the
\* list is ignored: updateRange(from, to) with from >= N changes nothing in
\* rowInfo, and the updateHeight(from, to) handler raises no error on the
\* range a redraw() hands it.
C13_StaleRangeIgnored ==
    /\ [](\A w \in StaleRanges :
             updateRange(rowInfo, listLength, list, height, defaultHeight,
                         w[1], w[2]) = rowInfo)
    /\ [][(RedrawStep /\ Len(tickQueue') > Len(tickQueue)) =>
              (list' = list /\ ~HandlerThrows(startIdx', endIdx'))]_vars

\* the window [s, e) holds every row of the index info that intersects the
\* visible area [topOffset, bottomOffset)
VisibleInside(info, len, s, e, topOffset, bottomOffset) ==
    /\ 0 <= s /\ s <= e /\ e <= len
    /\ DirectSum(info, s) <= Max(0, topOffset)
    /\ e = len \/ DirectSum(info, e) >= bottomOffset

\* C15: after every redraw() with padding >= 0 and 0 <= hysteresis <= 1 the
\* window holds every row that intersects the visible area:
\* S(startIdx) <= max(0, topOffset) and endIdx = N or S(endIdx) >= bottomOffset,
\* S the true sums of the stored heights, the offsets those redraw() computed.
C15_WindowCoversVisible ==
    [][(/\ RedrawStep
        /\ padding = Null \/ padding >= 0
        /\ 0 <= hysteresis /\ hysteresis <= HystDen) =>
            VisibleInside(rowInfo', listLength', startIdx', endIdx',
                    TopOffset(ReadScrollTop), BottomOffset(ReadScrollTop))]_vars

\* C16: when redraw() makes its hysteresis test (update() has run) and when
\* it returns, startTop = getRowTop(startIdx) and endTop = getRowTop(endIdx).
C16_CachedTopsArePrefixSums ==
    [][RedrawStep =>
        /\ startTop = getRowTop(UpdatedInfo, Len(list), startIdx)
        /\ endTop = getRowTop(UpdatedInfo, Len(list), endIdx)
        /\ startTop' = getRowTop(rowInfo', listLength', startIdx')
        /\ endTop' = getRowTop(rowInfo', listLength', endIdx')]_vars

\* C17: after every redraw(), the stored height of every row i < N is the
\* row's height attribute when it is set and defaultHeight otherwise.
C17_IndexMirrorsList ==
    [][RedrawStep =>
        \A i \in 0 .. (Len(list') - 1) :
            StoredHeight(rowInfo', i)
                = RowHeight(list', height', defaultHeight', i)]_vars

(***************************************************************************)
(* The claims about the height index alone.                                *)
(***************************************************************************)
IndexWindows ==
    {w \in (0 .. IndexMaxLen) \X (0 .. IndexMaxLen) : w[1] <= w[2]}

\* the rows of the window w carry the heights the index has stored
InSync(w) ==
    updateRange(rowInfo, listLength, list, height, defaultHeight, w[1], w[2])
        = rowInfo

\* the index after the list grew to l2 and update() ran with the window w
Grown(l2, w) ==
    update(rowInfo, listLength, l2, height, defaultHeight, w[1], w[2])

\* ... and after the list shrank back and update() ran again
Shrunk(grown, l2, w) ==
    update(grown, Len(l2), list, height, defaultHeight, w[1], w[2])

\* C11: growing a list of N > 0 rows to M > N rows and shrinking it back to
\* N, the heights of the first N rows unchanged, leaves the rowInfo entries
\* of the rows below N, and getRowTop(k) for k <= N, as they were; the growth
\* writes no slot below 2N.
C11_ResizeRoundTrip ==
    \A l2 \in IndexLists, w \in IndexWindows :
        (listLength > 0 /\ Len(l2) > listLength /\ InSync(w)) =>
            LET grown == Grown(l2, w)
                back == Shrunk(grown, l2, w)
            IN  /\ SubSeq(grown, 1, 2 * listLength) = rowInfo
                /\ Len(grown) = 2 * Len(l2)
                /\ back = rowInfo
                /\ \A k \in 0 .. listLength :
                       getRowTop(back, listLength, k)
                           = getRowTop(rowInfo, listLength, k)

\* an index of three rows that has read a written height and whose rows are
\* all as stored
C11_Witness ==
    /\ listLength = 3
    /\ Len(list) = 3
    /\ StoredHeight(rowInfo, 0) = 3
    /\ StoredHeight(rowInfo, 1) = -2
    /\ InSync(<<0, 3>>)

\* update1(rowIdx) applied to the index info
Applied(info, rowIdx) ==
    update1(info, listLength, list, height, defaultHeight, rowIdx)

\* C12: update1(i) for a row whose height is the stored one writes nothing,
\* and update1(i) applied twice leaves the index update1(i) leaves.
C12_UpdateIdempotent ==
    \A rowIdx \in 0 .. (listLength - 1) :
        LET once == Applied(rowInfo, rowIdx)
        IN  /\ RowHeight(list, height, defaultHeight, rowIdx)
                   = StoredHeight(rowInfo, rowIdx) =>
                   /\ once = rowInfo
                   /\ \A k \in 0 .. listLength :
                          getRowTop(once, listLength, k)
                              = getRowTop(rowInfo, listLength, k)
            /\ Applied(once, rowIdx) = once

\* an index with a row whose height was written and not yet read, and one
\* whose height is as stored
C12_Witness ==
    /\ listLength = 3
    /\ Len(list) = 3
    /\ RowHeight(list, height, defaultHeight, 0) # StoredHeight(rowInfo, 0)
    /\ RowHeight(list, height, defaultHeight, 2) = StoredHeight(rowInfo, 2)
    /\ StoredHeight(rowInfo, 2) = 3

\* the accumulator slot of row ri, and the sum of the stored heights of the
\* block of BlockSize(ri) rows that ends at ri
Accumulator(info, ri) == info[2 * ri + 2]

BlockSum(info, ri) ==
    DirectSum(info, ri + 1) - DirectSum(info, ri + 1 - BlockSize(ri))

Consistent(info, len) ==
    /\ Len(info) = 2 * len
    /\ \A ri \in 0 .. (len - 1) : Accumulator(info, ri) = BlockSum(info, ri)

\* the block of the accumulator slot of row j covers row i
Covers(j, i) == j - BlockSize(j) < i /\ i <= j

\* C18: on an index whose accumulator slots are consistent, update1(i) with
\* the new height v stores v for row i and changes no other stored height,
\* leaves getRowTop(k) for k <= i, adds v minus the old height to getRowTop(k)
\* for i < k <= N, and adds that difference to the accumulator slots of
\* exactly the rows whose block covers i, none of them at or beyond N.
C18_PointUpdate ==
    Consistent(rowInfo, listLength) =>
        \A i \in 0 .. (listLength - 1) :
            LET new == Applied(rowInfo, i)
                v == RowHeight(list, height, defaultHeight, i)
                diff == v - StoredHeight(rowInfo, i)
            IN  /\ Len(new) = 2 * listLength
                /\ StoredHeight(new, i) = v
                /\ \A j \in 0 .. (listLength - 1) :
                       /\ j # i => StoredHeight(new, j) = StoredHeight(rowInfo, j)
                       /\ Accumulator(new, j) =
                              Accumulator(rowInfo, j)
                                  + (IF Covers(j, i) THEN diff ELSE 0)
                /\ \A k \in 0 .. listLength :
                       getRowTop(new, listLength, k) =
                           getRowTop(rowInfo, listLength, k)
                               + (IF k > i THEN diff ELSE 0)

\* a consistent index of four rows, one of them read at its written height,
\* and a row whose height was written and not yet read
C18_Witness ==
    /\ listLength = 4
    /\ Len(list) = 4
    /\ Consistent(rowInfo, listLength)
    /\ StoredHeight(rowInfo, 2) = 3
    /\ RowHeight(list, height, defaultHeight, 1) # StoredHeight(rowInfo, 1)

\* C14: invalid numbers never take effect: the hysteresis of the band test
\* is within [0, 1] and every stored height is >= 0, so that the prefix sums
\* do not decrease.
C14_InvalidInputsRejected ==
    /\ 0 <= hysteresis /\ hysteresis <= HystDen
    /\ 0 <= defaultHeight
    /\ \A ri \in 0 .. (listLength - 1) : StoredHeight(rowInfo, ri) >= 0

\* a step of the user or of the parent: a scroll, a resize or signal, a
\* change of the list
ExternalStep ==
    \/ Trigger
    \/ \E s \in 0 .. MaxScroll : Scroll(s)
    \/ \E l \in ListPool : ReplaceList(l)
    \/ \E l \in ListPool : MutateList(l)

\* no redraw is scheduled and no updateHeight is waiting to be emitted
Quiet == ~Scheduled /\ tickQueue = << >>

\* a redraw would change neither the window nor a stored height
AtRest == ~WindowChanged /\ UpdatedInfo = rowInfo

\* the scroll position lies inside the scrollable range of the sheet, so the
\* viewport has no scroll position to correct
Settled == scrollTop <= MaxScrollTop

=============================================================================
